---- MODULE Spec2Model ----
(***************************************************************************)
(* Model of the aws_agent dialogue core: the pydantic deployment configs   *)
(* (src/aws/aws_cli.py) with their validated partial update modify_config, *)
(* and the turn loop and intent dispatcher of AWSAgent (src/main.py).      *)
(*                                                                         *)
(* and the parser of the model's replies (src/llm/llm_interface.py).       *)
(*                                                                         *)
(* Five specifications:                                                    *)
(*   Spec        the session run by AWSAgent.run                           *)
(*   SpecConfig  one config object driven through modify_config directly   *)
(*   SpecParse   one reply of the model given to the parser                *)
(*   SpecPool    threads that use the connection pool of the lookup        *)
(*   SpecLookup  one lookup of the best instance in a dataset              *)
(***************************************************************************)
EXTENDS Integers, Sequences, FiniteSets, TLC

VARIABLES ec2_config, as_config, autoscaling_enabled, conversation_history,
          run_reflection, pc, predicted_function_call, first_prediction,
          user_log, call, turn, turn_start, reflection, turn_calls,
          llm_response, parsed, pool, threads, database, lookup

vars == <<ec2_config, as_config, autoscaling_enabled, conversation_history,
          run_reflection, pc, predicted_function_call, first_prediction,
          user_log, call, turn, turn_start, reflection, turn_calls,
          llm_response, parsed, pool, threads, database, lookup>>

\* the variables of the connection pool
poolVars == <<pool, threads, database>>

(***************************************************************************)
(* Bounds of the model.                                                    *)
(***************************************************************************)
\* largest integer literal an argument may carry
MaxVal == 2
\* largest number of keyword arguments in one modify_config call
MaxKeys == 2
\* number of turns of a session that are explored
MaxTurns == 3
\* largest number of statements in a reply of the model
MaxStatements == 2
\* largest number of positional arguments of a call in a reply
MaxPositional == 1
\* largest number of keyword arguments of a call in a reply
MaxKeywords == 2
\* number of threads that use the connection pool
NumThreads == 2
\* number of times a thread enters the scope of a connection
MaxUses == 2
\* largest max_connections of a pool
MaxPoolSize == 2
\* largest number of rows of the table ec2_rec
MaxRows == 2

(***************************************************************************)
(* Python values. A value is a record [t, n]: its Python type and which    *)
(* value of the type it is.                                                *)
(*   int n        the integer n                                            *)
(*   float n      the whole float n.0                                      *)
(*   str n        the numeric string "n"                                   *)
(*   text n       a non-numeric string, n names which                      *)
(*   callable n   a function object, n names which                         *)
(*   list n       a list of strings, n names which                         *)
(*   none         None                                                     *)
(***************************************************************************)
None == [t |-> "none", n |-> 0]
IntV(i) == [t |-> "int", n |-> i]
FloatV(i) == [t |-> "float", n |-> i]
StrV(i) == [t |-> "str", n |-> i]
TextV(i) == [t |-> "text", n |-> i]
\* the builtin print and UserInterface.log_to_user
PrintFn == [t |-> "callable", n |-> 0]
LogToUserFn == [t |-> "callable", n |-> 1]
ListV(i) == [t |-> "list", n |-> i]

\* named strings of the program
AmiDefault == TextV(0)
TemplateTest == TextV(1)
SubnetTest1 == TextV(2)
SubnetId == TextV(3)
InstanceName == TextV(4)
OtherInstanceName == TextV(6)
SomeText == TextV(5)
ZonesDefault == ListV(0)

(***************************************************************************)
(* The config classes (src/aws/aws_cli.py). A config is a function from    *)
(* its field names to values; logging_function is a field of the base      *)
(* class AWSConfig and so of both.                                         *)
(***************************************************************************)
EC2FieldOrder == <<"logging_function", "InstanceType", "ImageId", "MinCount", "MaxCount">>
ASFieldOrder == <<"logging_function", "MinSize", "MaxSize", "DesiredCapacity",
                  "LaunchTemplateName", "VPCZoneIdentifier", "AvailabilityZones">>

FieldOrder(cls) == IF cls = "EC2InstanceConfig" THEN EC2FieldOrder ELSE ASFieldOrder

Range(s) == {s[i] : i \in DOMAIN s}

Fields(cls) == Range(FieldOrder(cls))

\* names that are attributes of a config object without being fields: the
\* methods the classes define
MethodNames == {"to_dict", "modify_config", "validate_counts"}

\* hasattr(self, key)
HasAttr(cls, key) == key \in Fields(cls) \cup MethodNames

\* EC2InstanceConfig()
EC2InstanceConfig ==
    [logging_function |-> PrintFn, InstanceType |-> None, ImageId |-> AmiDefault,
     MinCount |-> IntV(1), MaxCount |-> IntV(1)]

\* AutoScalingConfig()
AutoScalingConfig ==
    [logging_function |-> PrintFn, MinSize |-> IntV(1), MaxSize |-> IntV(1),
     DesiredCapacity |-> IntV(1), LaunchTemplateName |-> TemplateTest,
     VPCZoneIdentifier |-> SubnetTest1, AvailabilityZones |-> ZonesDefault]

(***************************************************************************)
(* pydantic's validation of one field (lax mode). An int field takes an    *)
(* int, a whole float or a numeric string and reads it as an integer; a    *)
(* str field takes a string only. The result is "ok" or the message of the *)
(* error.                                                                  *)
(***************************************************************************)
IsIntLike(v) == v.t \in {"int", "float", "str"}

\* the integer an int field reads from a value it accepts
AsInt(v) == v.n

\* int = Field(ge=1)
IntGe1Field(v) ==
    IF v.t = "text" THEN "Input should be a valid integer, unable to parse string as an integer"
    ELSE IF ~IsIntLike(v) THEN "Input should be a valid integer"
    ELSE IF AsInt(v) < 1 THEN "Input should be greater than or equal to 1"
    ELSE "ok"

\* str
StrField(v) == IF v.t \in {"str", "text"} THEN "ok" ELSE "Input should be a valid string"

\* str | None
OptStrField(v) == IF v = None THEN "ok" ELSE StrField(v)

\* List[str]
ListStrField(v) == IF v.t = "list" THEN "ok" ELSE "Input should be a valid list"

FieldError(cls, key, v) ==
    IF key = "logging_function" THEN "ok"
    ELSE IF key \in {"MinCount", "MaxCount", "MinSize", "MaxSize", "DesiredCapacity"}
        THEN IntGe1Field(v)
    ELSE IF key = "InstanceType" THEN OptStrField(v)
    ELSE IF key = "AvailabilityZones" THEN ListStrField(v)
    ELSE StrField(v)

\* EC2InstanceConfig.validate_counts, on a config whose fields validated
EC2InstanceConfig_validate_counts(data) ==
    IF AsInt(data["MinCount"]) > AsInt(data["MaxCount"])
    THEN "MaxCount must be greater than MinCount. Try changing both values in the same query."
    ELSE "ok"

\* AutoScalingConfig.validate_counts, on a config whose fields validated
AutoScalingConfig_validate_counts(data) ==
    IF AsInt(data["MinSize"]) > AsInt(data["MaxSize"])
    THEN "MaxSize must be greater than MinSize. Try changing both in the same query."
    ELSE IF AsInt(data["DesiredCapacity"]) < AsInt(data["MinSize"])
            \/ AsInt(data["DesiredCapacity"]) > AsInt(data["MaxSize"])
    THEN "DesiredCapacity must be between MinSize and MaxSize"
    ELSE "ok"

validate_counts(cls, data) ==
    IF cls = "EC2InstanceConfig" THEN EC2InstanceConfig_validate_counts(data)
    ELSE AutoScalingConfig_validate_counts(data)

\* the positions of the fields of the class whose value in data is refused
FieldErrorPositions(cls, data) ==
    {i \in DOMAIN FieldOrder(cls) :
        FieldError(cls, FieldOrder(cls)[i], data[FieldOrder(cls)[i]]) # "ok"}

Min(S) == CHOOSE x \in S : \A y \in S : x <= y

\* cls.model_validate(new_data): the fields in declaration order, then, when
\* every field validated, the model validator; keys that are no fields are
\* ignored. "ok", or the message of the first error, e.errors()[0]['msg'] with
\* its 'Value error, ' prefix removed.
model_validate(cls, data) ==
    LET bad == FieldErrorPositions(cls, data)
    IN  IF bad # {}
        THEN FieldError(cls, FieldOrder(cls)[Min(bad)], data[FieldOrder(cls)[Min(bad)]])
        ELSE validate_counts(cls, data)

(***************************************************************************)
(* AWSConfig.modify_config. kwargs is a function from the        *)
(* supplied keys to their values. The result is the config after the call, *)
(* the messages handed to self.logging_function in order, and the          *)
(* exception that left the call ("none" when it returned self).            *)
(***************************************************************************)
\* one order of every key a call may carry; a call's keys are visited in it
KwargOrder == <<"logging_function", "InstanceType", "ImageId", "MinCount", "MaxCount",
                "MinSize", "MaxSize", "DesiredCapacity", "LaunchTemplateName",
                "VPCZoneIdentifier", "AvailabilityZones", "to_dict", "modify_config",
                "validate_counts", "Color", "Colour", "cpu", "ram">>

NoKwargs == [k \in {} |-> None]

\* the message of the else branch of the loop over kwargs
NoAttributeMessage(cls, self, key) ==
    [sink |-> self["logging_function"], kind |-> "has no attribute", arg |-> key, cls |-> cls]

\* the message of the except branch
InvalidMessage(cls, self, msg) ==
    [sink |-> self["logging_function"], kind |-> "The modifications you specified are invalid.",
     arg |-> msg, cls |-> cls]

RECURSIVE NoAttributeMessages(_, _, _, _)
\* the messages of the loop over kwargs, from position i of KwargOrder on
NoAttributeMessages(cls, self, kwargs, i) ==
    IF i > Len(KwargOrder) THEN <<>>
    ELSE LET key == KwargOrder[i]
             rest == NoAttributeMessages(cls, self, kwargs, i + 1)
         IN  IF key \in DOMAIN kwargs /\ ~HasAttr(cls, key)
             THEN <<NoAttributeMessage(cls, self, key)>> \o rest
             ELSE rest

\* mutant of FoldedKeys: the test "value is not None" is missing
FoldedKeys_keeps_none(cls, kwargs) == {k \in DOMAIN kwargs : HasAttr(cls, k)}

\* the keys the loop over kwargs writes into new_data
FoldedKeys(cls, kwargs) == {k \in DOMAIN kwargs : HasAttr(cls, k) /\ kwargs[k] # None}

\* new_data after the loop over kwargs: self.model_dump() overlaid with the
\* values of the folded keys
NewData(cls, self, kwargs) ==
    [k \in Fields(cls) \cup FoldedKeys(cls, kwargs) |->
        IF k \in FoldedKeys(cls, kwargs) THEN kwargs[k] ELSE self[k]]

\* mutant of modify_config: the fields are assigned before the validation
modify_config_assigns_before_validating(cls, self, kwargs) ==
    LET new_data == NewData(cls, self, kwargs)
        warned == NoAttributeMessages(cls, self, kwargs, 1)
        verdict == model_validate(cls, new_data)
        assigned == [k \in Fields(cls) |-> new_data[k]]
    IN  IF verdict = "ok"
        THEN [config |-> assigned,
              log |-> warned,
              raised |-> IF DOMAIN new_data \subseteq Fields(cls) THEN "none"
                         ELSE "AttributeError"]
        ELSE [config |-> assigned,
              log |-> Append(warned, InvalidMessage(cls, self, verdict)),
              raised |-> "none"]

\* mutant of modify_config: the values of the validated new_instance are
\* assigned, an integer field holding the integer read from the value
modify_config_assigns_validated(cls, self, kwargs) ==
    LET new_data == NewData(cls, self, kwargs)
        warned == NoAttributeMessages(cls, self, kwargs, 1)
        verdict == model_validate(cls, new_data)
    IN  IF verdict = "ok"
        THEN [config |-> [k \in Fields(cls) |->
                            IF new_data[k].t \in {"float", "str"}
                            THEN IntV(AsInt(new_data[k])) ELSE new_data[k]],
              log |-> warned,
              raised |-> IF DOMAIN new_data \subseteq Fields(cls) THEN "none"
                         ELSE "AttributeError"]
        ELSE [config |-> self,
              log |-> Append(warned, InvalidMessage(cls, self, verdict)),
              raised |-> "none"]

\* mutant of modify_config: each supplied field is validated alone against
\* the values the config holds, and the update is refused when one fails
modify_config_validates_each_key_alone(cls, self, kwargs) ==
    LET new_data == NewData(cls, self, kwargs)
        warned == NoAttributeMessages(cls, self, kwargs, 1)
        alone(k) == [j \in Fields(cls) |-> IF j = k THEN new_data[j] ELSE self[j]]
        refused == {k \in Fields(cls) : model_validate(cls, alone(k)) # "ok"}
    IN  IF refused = {}
        THEN [config |-> [k \in Fields(cls) |-> new_data[k]],
              log |-> warned,
              raised |-> IF DOMAIN new_data \subseteq Fields(cls) THEN "none"
                         ELSE "AttributeError"]
        ELSE [config |-> self,
              log |-> Append(warned, InvalidMessage(cls, self,
                            model_validate(cls, alone(CHOOSE k \in refused : TRUE)))),
              raised |-> "none"]

\* the loop of setattr over new_data: the fields come first and are all
\* assigned; a key that is an attribute but no field then makes pydantic's
\* __setattr__ raise a plain ValueError, and the except branch's e.errors()
\* raises AttributeError on it
modify_config(cls, self, kwargs) ==
    LET new_data == NewData(cls, self, kwargs)
        warned == NoAttributeMessages(cls, self, kwargs, 1)
        verdict == model_validate(cls, new_data)
    IN  IF verdict = "ok"
        THEN [config |-> [k \in Fields(cls) |-> new_data[k]],
              log |-> warned,
              raised |-> IF DOMAIN new_data \subseteq Fields(cls) THEN "none"
                         ELSE "AttributeError"]
        ELSE [config |-> self,
              log |-> Append(warned, InvalidMessage(cls, self, verdict)),
              raised |-> "none"]

(***************************************************************************)
(* The calls explored: at most MaxKeys keys, each with a value of any of   *)
(* the types the function-call parser produces.                            *)
(***************************************************************************)
\* the values offered to a field that holds a count
NumericValues == {None, FloatV(2), StrV(2), SomeText} \cup {IntV(i) : i \in 0..MaxVal}

\* the values offered to a key; logging_function, which is not validated, is
\* given functions only, so that the config always has a function to report to
KwargValues(key) ==
    IF key \in {"MinCount", "MaxCount", "MinSize", "MaxSize", "DesiredCapacity"}
        THEN NumericValues
    ELSE IF key = "logging_function" THEN {None, PrintFn, LogToUserFn}
    ELSE IF key \in {"InstanceType", "LaunchTemplateName"} THEN {None, InstanceName, IntV(1)}
    ELSE {None, IntV(1)}

EC2KwargKeys == {"InstanceType", "MinCount", "MaxCount", "logging_function", "to_dict", "Color"}
ASKwargKeys == {"MinSize", "MaxSize", "DesiredCapacity", "logging_function", "to_dict", "Color"}

AllValues == UNION {KwargValues(KwargOrder[i]) : i \in DOMAIN KwargOrder}

KwargsOver(keys) ==
    UNION {{f \in [D -> AllValues] : \A k \in D : f[k] \in KwargValues(k)} :
            D \in {D \in SUBSET keys : Cardinality(D) <= MaxKeys}}

EC2Kwargs == KwargsOver(EC2KwargKeys)
ASKwargs == KwargsOver(ASKwargKeys)

\* the record of the last modify_config call
CallRecord(cls, kwargs, before, result) ==
    [cls |-> cls, kwargs |-> kwargs, before |-> before, log |-> result.log,
     raised |-> result.raised, calls |-> 1]

NoCall(cls) ==
    [cls |-> cls, kwargs |-> NoKwargs, before |-> NoKwargs, log |-> <<>>,
     raised |-> "none", calls |-> 0]

sessionVars == <<autoscaling_enabled, conversation_history, run_reflection, pc,
                 predicted_function_call, first_prediction, user_log, turn, turn_start,
                 reflection, turn_calls, llm_response, parsed, poolVars, lookup>>

(***************************************************************************)
(* SpecConfig: a config object of either class, constructed with its       *)
(* defaults and then driven through modify_config.                         *)
(***************************************************************************)
InitConfig ==
    /\ ec2_config = EC2InstanceConfig
    /\ as_config = AutoScalingConfig
    /\ autoscaling_enabled = FALSE
    /\ conversation_history = <<>>
    /\ run_reflection = FALSE
    /\ pc = "api"
    /\ predicted_function_call = None
    /\ first_prediction = None
    /\ user_log = <<>>
    /\ turn = 0
    /\ turn_start = None
    /\ reflection = None
    /\ turn_calls = <<>>
    /\ llm_response = None
    /\ parsed = None
    /\ pool = None
    /\ threads = <<>>
    /\ database = None
    /\ lookup = None
    /\ \E cls \in {"EC2InstanceConfig", "AutoScalingConfig"} : call = NoCall(cls)

\* ec2_config.modify_config called with kwargs
ApiModifyEC2 ==
    /\ pc = "api"
    /\ call.calls = 0
    /\ call.cls = "EC2InstanceConfig"
    /\ \E kwargs \in EC2Kwargs :
        LET result == modify_config("EC2InstanceConfig", ec2_config, kwargs)
        IN  /\ ec2_config' = result.config
            /\ call' = CallRecord("EC2InstanceConfig", kwargs, ec2_config, result)
    /\ UNCHANGED <<as_config, sessionVars>>

\* as_config.modify_config called with kwargs
ApiModifyAS ==
    /\ pc = "api"
    /\ call.calls = 0
    /\ call.cls = "AutoScalingConfig"
    /\ \E kwargs \in ASKwargs :
        LET result == modify_config("AutoScalingConfig", as_config, kwargs)
        IN  /\ as_config' = result.config
            /\ call' = CallRecord("AutoScalingConfig", kwargs, as_config, result)
    /\ UNCHANGED <<ec2_config, sessionVars>>

\* the call has returned (or raised) and its caller goes on to the next call
ApiReturn ==
    /\ pc = "api"
    /\ call.calls = 1
    /\ call' = NoCall(call.cls)
    /\ UNCHANGED <<ec2_config, as_config, sessionVars>>

NextConfig == ApiModifyEC2 \/ ApiModifyAS \/ ApiReturn

SpecConfig == InitConfig /\ [][NextConfig]_vars

(***************************************************************************)
(* The session: AWSAgent (src/main.py).                                    *)
(***************************************************************************)
\* the positional parameters modify_config declares besides self
ModifyConfigPositionalParams == 0

\* mutant of call_modify_config: the supplied values are assigned to the
\* fields directly, without the validation of modify_config
call_modify_config_assigns_unvalidated(cls, self, args, kwargs) ==
    [config |-> [k \in Fields(cls) |->
                    IF k \in DOMAIN kwargs /\ kwargs[k] # None THEN kwargs[k] ELSE self[k]],
     log |-> <<>>,
     raised |-> "none"]

\* mutant of call_modify_config: a call with too many positional arguments
\* assigns the supplied values before it raises
call_modify_config_assigns_then_raises(cls, self, args, kwargs) ==
    IF Len(args) > ModifyConfigPositionalParams
    THEN [config |-> [k \in Fields(cls) |->
                        IF k \in DOMAIN kwargs /\ kwargs[k] # None THEN kwargs[k] ELSE self[k]],
          log |-> <<>>,
          raised |-> "TypeError"]
    ELSE modify_config(cls, self, kwargs)

\* binding a call self.modify_config(*args, **kwargs) to the signature
\* modify_config(self, **kwargs): a positional argument raises TypeError
\* before the body runs
call_modify_config(cls, self, args, kwargs) ==
    IF Len(args) > ModifyConfigPositionalParams
    THEN [config |-> self, log |-> <<>>, raised |-> "TypeError"]
    ELSE modify_config(cls, self, kwargs)

\* AWSConfig.to_dict: the fields that hold a value, without logging_function
to_dict(self) ==
    [k \in {f \in DOMAIN self : f # "logging_function" /\ self[f] # None} |-> self[k]]

Intent(name, kwargs) == [function_name |-> name, kwargs |-> kwargs]

\* the classified intents explored: every recognized name, the out-of-scope
\* sentinel and a name that is none of them
TypeSelectionKwargs == {NoKwargs, [cpu |-> IntV(2)], [Color |-> IntV(1)]}
ModifyEC2Kwargs == {[MaxCount |-> IntV(2)], [MinCount |-> IntV(2)], [Color |-> IntV(1)]}
ModifyASKwargs == {[MaxSize |-> IntV(2), DesiredCapacity |-> IntV(2)], [MinSize |-> IntV(2)],
                   [Color |-> IntV(1)]}
UnrecognizedKwargs == {NoKwargs, [MinCount |-> IntV(2)]}

Intents ==
    {Intent("user_intent_ec2_type_selection", k) : k \in TypeSelectionKwargs}
    \cup {Intent("user_intent_modify_ec2_config", k) : k \in ModifyEC2Kwargs}
    \cup {Intent("user_intent_modify_as_config", k) : k \in ModifyASKwargs}
    \cup {Intent(n, NoKwargs) : n \in {"user_intent_confirm", "user_intent_enable_autoscaling",
                                       "user_intent_display_current_deployment_config"}}
    \cup {Intent(n, k) : n \in {"user_intent_out_of_scope", "user_intent_unlisted"},
                         k \in UnrecognizedKwargs}

\* what a request to the model endpoint may raise: requests.post on a
\* transport failure, resp[0]["generated_text"] on a reply that is an error
EndpointErrors == {"ConnectionError", "KeyError"}

\* the outcomes of one call of the endpoint and of the parsing of its reply:
\* an intent, or an exception raised by the request
EndpointOutcomes ==
    {[raises |-> "none", intent |-> p] : p \in Intents}
    \cup {[raises |-> e, intent |-> None] : e \in EndpointErrors}

\* mutant of get_llm_function_calling_response: a failure of the request is
\* turned into the out-of-scope intent
get_llm_function_calling_response_swallows(o) ==
    IF o.raises # "none"
    THEN [result |-> Intent("user_intent_out_of_scope", NoKwargs), raised |-> "none"]
    ELSE [result |-> o.intent, raised |-> "none"]

\* LLMInterface.get_llm_function_calling_response: raven_llm_query runs outside
\* the parser's try block, so what the request raises is raised by the call
get_llm_function_calling_response(o) ==
    IF o.raises # "none"
    THEN [result |-> None, raised |-> o.raises]
    ELSE [result |-> o.intent, raised |-> "none"]

\* LLMInterface.reflect: the same request and parsing with the reflective prompt
reflect(o) ==
    IF o.raises # "none"
    THEN [result |-> None, raised |-> o.raises]
    ELSE [result |-> o.intent, raised |-> "none"]

\* the calls of the turn, with a failed request to the endpoint recorded
EndpointCall(calls, o) ==
    IF o.raises # "none"
    THEN Append(calls, [op |-> "raven_llm_query", raised |-> o.raises])
    ELSE calls

\* a line of output: the function that wrote it and what it says
Message(sink, kind, arg) == [sink |-> sink, kind |-> kind, arg |-> arg, cls |-> ""]

\* ui.log_to_user(text)
log_to_user(log, kind, arg) == Append(log, Message(LogToUserFn, kind, arg))

\* mutant of display_current_deployment_config: the scaling config is shown
\* whether or not autoscaling is enabled
display_always_shows_scaling(log, ec2, as, enabled) ==
    log_to_user(
        log_to_user(
            log_to_user(log, "Recommended optimized EC2 config:", to_dict(ec2)),
            "Recommended optimized AutoScaling config:", to_dict(as)),
        "How does this look?", "")

\* AWSAgent.display_current_deployment_config, given the state it displays
display_current_deployment_config(log, ec2, as, enabled) ==
    LET shown == log_to_user(log, "Recommended optimized EC2 config:", to_dict(ec2))
        both == IF enabled
                THEN log_to_user(shown, "Recommended optimized AutoScaling config:", to_dict(as))
                ELSE shown
    IN  log_to_user(both, "How does this look?", "")

\* AWSAgent.__init__, before run
Init ==
    /\ ec2_config = EC2InstanceConfig
    /\ as_config = [AutoScalingConfig EXCEPT !["VPCZoneIdentifier"] = SubnetId]
    /\ autoscaling_enabled = FALSE
    /\ conversation_history = <<>>
    /\ run_reflection \in BOOLEAN
    /\ pc = "prompt"
    /\ predicted_function_call = None
    /\ first_prediction = None
    /\ user_log = <<>>
    /\ turn = 0
    /\ turn_start = None
    /\ reflection = None
    /\ turn_calls = <<>>
    /\ llm_response = None
    /\ parsed = None
    /\ pool = None
    /\ threads = <<>>
    /\ database = None
    /\ lookup = None
    /\ call = NoCall("")

Snapshot == [ec2_config |-> ec2_config, as_config |-> as_config,
             autoscaling_enabled |-> autoscaling_enabled]

\* the except clause of run: report the error, and run returns
Fail(log, error) ==
    /\ user_log' = log_to_user(log, "Error:", error)
    /\ pc' = "ended"

Human(n) == [role |-> "human", text |-> IntV(n)]
Bot(intent) == [role |-> "bot", text |-> intent]

\* ui.prompt_user_for_ec2_requirements() and the append of the utterance; input()
\* raises at end of input
PromptUser ==
    /\ pc = "prompt"
    /\ turn' = 1
    /\ turn_start' = Snapshot
    /\ turn_calls' = <<>>
    /\ \/ /\ conversation_history' = Append(conversation_history, Human(1))
          /\ user_log' = <<>>
          /\ pc' = "first_classify"
       \/ /\ Fail(<<>>, "EOFError")
          /\ UNCHANGED conversation_history
    /\ UNCHANGED <<ec2_config, as_config, autoscaling_enabled, run_reflection,
                   predicted_function_call, first_prediction, call,
                   reflection, llm_response, parsed, poolVars, lookup>>

\* first turn: get_llm_function_calling_response and the append of its result;
\* the request to the endpoint may raise
FirstClassify ==
    /\ pc = "first_classify"
    /\ \E o \in EndpointOutcomes :
        LET r == get_llm_function_calling_response(o)
        IN  /\ turn_calls' = EndpointCall(turn_calls, o)
            /\ IF r.raised = "none"
               THEN /\ predicted_function_call' = r.result
                    /\ first_prediction' = r.result
                    /\ conversation_history' = Append(conversation_history, Bot(r.result))
                    /\ pc' = IF run_reflection THEN "first_reflect" ELSE "first_dispatch"
                    /\ UNCHANGED user_log
               ELSE /\ Fail(user_log, r.raised)
                    /\ UNCHANGED <<predicted_function_call, first_prediction, conversation_history>>
    /\ UNCHANGED <<ec2_config, as_config, autoscaling_enabled, run_reflection, call, turn,
                   turn_start, reflection, llm_response, parsed, poolVars, lookup>>

\* first turn: reflect, whose result is assigned to the variable that held
\* the prediction of the classifier
FirstReflect ==
    /\ pc = "first_reflect"
    /\ \E o \in EndpointOutcomes :
        LET r == reflect(o)
        IN  /\ turn_calls' = EndpointCall(turn_calls, o)
            /\ IF r.raised = "none"
               THEN /\ predicted_function_call' = r.result
                    /\ reflection' = r.result
                    /\ first_prediction' = None
                    /\ pc' = "first_dispatch"
                    /\ UNCHANGED user_log
               ELSE /\ Fail(user_log, r.raised)
                    /\ UNCHANGED <<predicted_function_call, reflection, first_prediction>>
    /\ UNCHANGED <<ec2_config, as_config, autoscaling_enabled, run_reflection, call, turn,
                   turn_start, conversation_history, llm_response, parsed, poolVars, lookup>>

\* dialogue loop: ui.get_user_response() and the append of the utterance
ReadUtterance ==
    /\ pc = "read"
    /\ turn < MaxTurns
    /\ turn' = turn + 1
    /\ turn_start' = Snapshot
    /\ turn_calls' = <<>>
    /\ predicted_function_call' = None
    /\ \/ /\ conversation_history' = Append(conversation_history, Human(turn + 1))
          /\ user_log' = <<>>
          /\ pc' = "classify"
       \/ /\ Fail(<<>>, "EOFError")
          /\ UNCHANGED conversation_history
    /\ UNCHANGED <<ec2_config, as_config, autoscaling_enabled, run_reflection,
                   first_prediction, call,
                   reflection, llm_response, parsed, poolVars, lookup>>

\* dialogue loop: get_llm_function_calling_response
Classify ==
    /\ pc = "classify"
    /\ \E o \in EndpointOutcomes :
        LET r == get_llm_function_calling_response(o)
        IN  /\ turn_calls' = EndpointCall(turn_calls, o)
            /\ IF r.raised = "none"
               THEN /\ predicted_function_call' = r.result
                    /\ first_prediction' = r.result
                    /\ pc' = IF run_reflection THEN "reflect" ELSE "append"
                    /\ UNCHANGED user_log
               ELSE /\ Fail(user_log, r.raised)
                    /\ UNCHANGED <<predicted_function_call, first_prediction>>
    /\ UNCHANGED <<ec2_config, as_config, autoscaling_enabled, run_reflection, call, turn,
                   turn_start, reflection, conversation_history, llm_response, parsed, poolVars, lookup>>

\* mutant of Reflect: the name of the first classification is kept and only the
\* arguments of the reflection are taken
Reflect_merges ==
    /\ pc = "reflect"
    /\ \E o \in EndpointOutcomes :
        LET r == reflect(o)
        IN  /\ turn_calls' = EndpointCall(turn_calls, o)
            /\ IF r.raised = "none"
               THEN /\ predicted_function_call' = Intent(first_prediction.function_name, r.result.kwargs)
                    /\ reflection' = r.result
                    /\ first_prediction' = None
                    /\ pc' = "append"
                    /\ UNCHANGED user_log
               ELSE /\ Fail(user_log, r.raised)
                    /\ UNCHANGED <<predicted_function_call, reflection, first_prediction>>
    /\ UNCHANGED <<ec2_config, as_config, autoscaling_enabled, run_reflection, call, turn,
                   turn_start, conversation_history, llm_response, parsed, poolVars, lookup>>

\* dialogue loop: reflect, whose result is assigned to the variable that held
\* the response of the classifier
Reflect ==
    /\ pc = "reflect"
    /\ \E o \in EndpointOutcomes :
        LET r == reflect(o)
        IN  /\ turn_calls' = EndpointCall(turn_calls, o)
            /\ IF r.raised = "none"
               THEN /\ predicted_function_call' = r.result
                    /\ reflection' = r.result
                    /\ first_prediction' = None
                    /\ pc' = "append"
                    /\ UNCHANGED user_log
               ELSE /\ Fail(user_log, r.raised)
                    /\ UNCHANGED <<predicted_function_call, reflection, first_prediction>>
    /\ UNCHANGED <<ec2_config, as_config, autoscaling_enabled, run_reflection, call, turn,
                   turn_start, conversation_history, llm_response, parsed, poolVars, lookup>>

\* mutant of AppendResponse: the agent's response is written over the last
\* record of the transcript
AppendResponse_overwrites_last ==
    /\ pc = "append"
    /\ conversation_history' =
          [conversation_history EXCEPT ![Len(conversation_history)] =
                                            Bot(predicted_function_call)]
    /\ pc' = "dispatch"
    /\ UNCHANGED <<ec2_config, as_config, autoscaling_enabled, run_reflection, call, turn,
                   turn_start, first_prediction, predicted_function_call, user_log,
                   reflection, turn_calls, llm_response, parsed, poolVars, lookup>>

\* dialogue loop: the append of the agent's response
AppendResponse ==
    /\ pc = "append"
    /\ conversation_history' = Append(conversation_history, Bot(predicted_function_call))
    /\ pc' = "dispatch"
    /\ UNCHANGED <<ec2_config, as_config, autoscaling_enabled, run_reflection, call, turn,
                   turn_start, first_prediction, predicted_function_call, user_log,
                   reflection, turn_calls, llm_response, parsed, poolVars, lookup>>

(***************************************************************************)
(* AWSAgent.handle_user_intent: one action per branch. A handler that      *)
(* returns leaves the loop at its next read; an exception in a handler     *)
(* reaches the except clause of run.                                       *)
(***************************************************************************)
Dispatching(name) ==
    /\ pc \in {"first_dispatch", "dispatch"}
    /\ predicted_function_call.function_name = name

Handled(log) ==
    /\ user_log' = log
    /\ pc' = "read"

\* find_best_instance called with kwargs: the parameters it declares
FindBestInstanceParams == {"cpu", "ram"}

\* the results find_best_instance may return: a row, or no row
FindBestInstanceResults ==
    {[found |-> TRUE, API_Name |-> InstanceName, message |-> ""],
     [found |-> TRUE, API_Name |-> OtherInstanceName, message |-> ""],
     [found |-> FALSE, API_Name |-> None, message |-> "No instance found"],
     [found |-> FALSE, API_Name |-> None, message |-> "Database error occurred:"]}

\* mutant of TypeSelectionUpdate: the found name is shown but not stored
TypeSelectionUpdate_none(r) == NoKwargs

\* the update made on a hit: modify_config(InstanceType=recommended_ec2_name)
TypeSelectionUpdate(r) == [InstanceType |-> r.API_Name]

\* mutant of MissMessage: a miss is answered with the text of the else branch
MissMessage_fixed(r) == "Sorry, I didn't understand that. Please try again."

\* what is said on a miss: recommended_ec2_instance_spec["message"]
MissMessage(r) == r.message

\* the call find_best_instance(**kwargs) and what it returned
FindBestInstanceCall(kwargs, r) ==
    [op |-> "find_best_instance", kwargs |-> kwargs, result |-> r]

handle_user_intent_ec2_type_selection ==
    /\ Dispatching("user_intent_ec2_type_selection")
    /\ first_prediction' = None
    /\ reflection' = None
    /\ LET kwargs == predicted_function_call.kwargs
       IN  IF ~(DOMAIN kwargs \subseteq FindBestInstanceParams)
           THEN /\ Fail(user_log, "TypeError")
                /\ UNCHANGED <<ec2_config, call, turn_calls>>
           ELSE \E r \in FindBestInstanceResults :
                /\ turn_calls' = Append(turn_calls, FindBestInstanceCall(kwargs, r))
                /\ IF r.found
                   THEN LET update == TypeSelectionUpdate(r)
                            result == call_modify_config("EC2InstanceConfig", ec2_config,
                                                         <<>>, update)
                            log == user_log \o result.log
                        IN  /\ ec2_config' = result.config
                            /\ call' = CallRecord("EC2InstanceConfig", update, ec2_config, result)
                            /\ IF result.raised # "none"
                               THEN Fail(log, result.raised)
                               ELSE Handled(display_current_deployment_config(
                                           log, result.config, as_config, autoscaling_enabled))
                   ELSE /\ Handled(log_to_user(user_log, MissMessage(r), ""))
                        /\ UNCHANGED <<ec2_config, call>>
    /\ UNCHANGED <<as_config, autoscaling_enabled, conversation_history, run_reflection,
                   predicted_function_call, turn, turn_start,
                   llm_response, parsed, poolVars, lookup>>

\* mutant of DeployCall: the flag is left at the default of deploy's parameter
DeployCall_default_flag(ec2, as, enabled) ==
    [op |-> "deploy", ec2_config |-> ec2, as_config |-> as, autoscaling_enabled |-> FALSE]

\* the call self.ec2_cli.deploy(self.ec2_config, self.as_config,
\* autoscaling_enabled=self.autoscaling_enabled): the arguments the backend is given
DeployCall(ec2, as, enabled) ==
    [op |-> "deploy", ec2_config |-> ec2, as_config |-> as, autoscaling_enabled |-> enabled]

\* how the steps of a deployment may go. With autoscaling: the launch template
\* is refused (ClientError, caught in create_launch_template) or its request
\* raises another error; the group is refused (ClientError, caught in
\* create_auto_scaling_group) or its request raises another error; no group is
\* described; the group has no instances; the console output cannot be read;
\* or all steps succeed. Without: run_instances raises, returns no instance,
\* the console output cannot be read, or all steps succeed.
DeployOutcomes(enabled) ==
    IF enabled
    THEN {"template_client_error", "template_error", "group_client_error", "group_error",
          "no_group", "no_instances", "stream_error", "deployed"}
    ELSE {"launch_error", "no_instances", "stream_error", "deployed"}

\* the outcomes in which a step of the backend failed
DeployFailures ==
    {"template_client_error", "template_error", "group_client_error", "group_error",
     "launch_error", "no_instances", "stream_error"}

TemplateCreated == <<"Launch Template created with ID:", "Creating Auto Scaling Group...">>
GroupAwaited ==
    TemplateCreated \o <<"Auto Scaling Group created successfully.",
                         "Waiting for instances to be launched by Auto Scaling Group...">>
GroupLaunched ==
    GroupAwaited \o <<"Auto Scaling Group has launched instances. Instance IDs:",
                      "Deployment completed successfully">>
DirectLaunched ==
    <<"Deploying EC2 instances directly...", "Deployed instances. Instance IDs:",
      "Deployment completed successfully">>

\* the try block of deploy: the lines it writes, and what it raises
deploy_steps(enabled, outcome) ==
    CASE outcome = "template_client_error" ->
            [lines |-> <<"Error creating launch template:",
                         "Failed to create Launch Template. Aborting deployment.">>,
             raised |-> "none"]
      [] outcome = "template_error" ->
            [lines |-> <<>>, raised |-> "ParamValidationError"]
      [] outcome = "group_client_error" ->
            [lines |-> TemplateCreated \o
                       <<"Error creating Auto Scaling group:",
                         "Waiting for instances to be launched by Auto Scaling Group...",
                         "No instances have been launched yet by the Auto Scaling Group.">>,
             raised |-> "none"]
      [] outcome = "group_error" ->
            [lines |-> TemplateCreated, raised |-> "ParamValidationError"]
      [] outcome = "no_group" ->
            [lines |-> GroupAwaited \o
                       <<"No instances have been launched yet by the Auto Scaling Group.">>,
             raised |-> "none"]
      [] outcome = "launch_error" ->
            [lines |-> <<"Deploying EC2 instances directly...">>, raised |-> "ClientError"]
      [] outcome = "no_instances" ->
            [lines |-> IF enabled THEN GroupLaunched ELSE DirectLaunched,
             raised |-> "IndexError"]
      [] outcome = "stream_error" ->
            [lines |-> IF enabled THEN GroupLaunched ELSE DirectLaunched,
             raised |-> "ClientError"]
      [] OTHER ->
            [lines |-> (IF enabled THEN GroupLaunched ELSE DirectLaunched)
                       \o <<"Console Output:">>,
             raised |-> "none"]

\* each line written through the logging function, which main sets to
\* ui.log_to_user
RECURSIVE log_lines(_, _)
log_lines(log, lines) ==
    IF lines = <<>> THEN log
    ELSE log_lines(log_to_user(log, lines[1], ""), Tail(lines))

\* mutant of deploy: only ClientError is caught
deploy_catches_client_error_only(log, ec2, as, enabled, outcome) ==
    LET steps == deploy_steps(enabled, outcome)
        said == log_lines(log, <<"\n">> \o steps.lines)
    IN  IF steps.raised = "ClientError"
        THEN [log |-> log_to_user(said, "An error occurred during deployment:", steps.raised),
              raised |-> "none"]
        ELSE [log |-> said, raised |-> steps.raised]

\* EC2CLI.deploy: the blank line it starts with, then the try block under
\* except Exception; it reads the configs and assigns neither of them
deploy(log, ec2, as, enabled, outcome) ==
    LET steps == deploy_steps(enabled, outcome)
        said == log_lines(log, <<"\n">> \o steps.lines)
    IN  IF steps.raised # "none"
        THEN [log |-> log_to_user(said, "An error occurred during deployment:", steps.raised),
              raised |-> "none"]
        ELSE [log |-> said, raised |-> "none"]

handle_user_intent_confirm ==
    /\ Dispatching("user_intent_confirm")
    /\ first_prediction' = None
    /\ reflection' = None
    /\ \E outcome \in DeployOutcomes(autoscaling_enabled) :
        LET result == deploy(user_log, ec2_config, as_config, autoscaling_enabled, outcome)
        IN  /\ turn_calls' =
                  Append(turn_calls,
                         DeployCall(ec2_config, as_config, autoscaling_enabled)
                             @@ [outcome |-> outcome])
            /\ IF result.raised # "none"
               THEN Fail(result.log, result.raised)
               ELSE Handled(result.log)
    /\ UNCHANGED <<ec2_config, as_config, autoscaling_enabled, conversation_history,
                   run_reflection, predicted_function_call, turn, turn_start, call,
                   llm_response, parsed, poolVars, lookup>>

\* mutant of handle_user_intent_enable_autoscaling: the flag is toggled
handle_user_intent_enable_autoscaling_toggles ==
    /\ Dispatching("user_intent_enable_autoscaling")
    /\ first_prediction' = None
    /\ reflection' = None
    /\ autoscaling_enabled' = ~autoscaling_enabled
    /\ Handled(display_current_deployment_config(user_log, ec2_config, as_config,
                                                 ~autoscaling_enabled))
    /\ UNCHANGED <<ec2_config, as_config, conversation_history, run_reflection,
                   predicted_function_call, turn, turn_start, call,
                   turn_calls, llm_response, parsed, poolVars, lookup>>

handle_user_intent_enable_autoscaling ==
    /\ Dispatching("user_intent_enable_autoscaling")
    /\ first_prediction' = None
    /\ reflection' = None
    /\ autoscaling_enabled' = TRUE
    /\ Handled(display_current_deployment_config(user_log, ec2_config, as_config, TRUE))
    /\ UNCHANGED <<ec2_config, as_config, conversation_history, run_reflection,
                   predicted_function_call, turn, turn_start, call,
                   turn_calls, llm_response, parsed, poolVars, lookup>>

\* the branch user_intent_display_current_deployment_config
handle_user_intent_display ==
    /\ Dispatching("user_intent_display_current_deployment_config")
    /\ first_prediction' = None
    /\ reflection' = None
    /\ Handled(display_current_deployment_config(user_log, ec2_config, as_config,
                                                 autoscaling_enabled))
    /\ UNCHANGED <<ec2_config, as_config, autoscaling_enabled, conversation_history,
                   run_reflection, predicted_function_call, turn, turn_start, call,
                   turn_calls, llm_response, parsed, poolVars, lookup>>

\* self.ec2_config.modify_config(self.ui.log_to_user, **kwargs), then the display
handle_user_intent_modify_ec2_config ==
    /\ Dispatching("user_intent_modify_ec2_config")
    /\ first_prediction' = None
    /\ reflection' = None
    /\ LET kwargs == predicted_function_call.kwargs
           result == call_modify_config("EC2InstanceConfig", ec2_config,
                                        <<LogToUserFn>>, kwargs)
           log == user_log \o result.log
       IN  /\ ec2_config' = result.config
           /\ call' = CallRecord("EC2InstanceConfig", kwargs, ec2_config, result)
           /\ IF result.raised # "none"
              THEN Fail(log, result.raised)
              ELSE Handled(display_current_deployment_config(
                          log, result.config, as_config, autoscaling_enabled))
    /\ UNCHANGED <<as_config, autoscaling_enabled, conversation_history, run_reflection,
                   predicted_function_call, turn, turn_start,
                   turn_calls, llm_response, parsed, poolVars, lookup>>

\* self.as_config.modify_config(self.ui.log_to_user, **kwargs), then the display
handle_user_intent_modify_as_config ==
    /\ Dispatching("user_intent_modify_as_config")
    /\ first_prediction' = None
    /\ reflection' = None
    /\ LET kwargs == predicted_function_call.kwargs
           result == call_modify_config("AutoScalingConfig", as_config,
                                        <<LogToUserFn>>, kwargs)
           log == user_log \o result.log
       IN  /\ as_config' = result.config
           /\ call' = CallRecord("AutoScalingConfig", kwargs, as_config, result)
           /\ IF result.raised # "none"
              THEN Fail(log, result.raised)
              ELSE Handled(display_current_deployment_config(
                          log, ec2_config, result.config, autoscaling_enabled))
    /\ UNCHANGED <<ec2_config, autoscaling_enabled, conversation_history, run_reflection,
                   predicted_function_call, turn, turn_start,
                   turn_calls, llm_response, parsed, poolVars, lookup>>

RecognizedIntents ==
    {"user_intent_ec2_type_selection", "user_intent_confirm", "user_intent_enable_autoscaling",
     "user_intent_display_current_deployment_config", "user_intent_modify_ec2_config",
     "user_intent_modify_as_config"}

\* mutant of handle_user_intent_out_of_scope: the else branch says nothing
handle_user_intent_out_of_scope_silent ==
    /\ pc \in {"first_dispatch", "dispatch"}
    /\ predicted_function_call.function_name \notin RecognizedIntents
    /\ first_prediction' = None
    /\ reflection' = None
    /\ Handled(user_log)
    /\ UNCHANGED <<ec2_config, as_config, autoscaling_enabled, conversation_history,
                   run_reflection, predicted_function_call, turn, turn_start, call,
                   turn_calls, llm_response, parsed, poolVars, lookup>>

\* the else branch: out of scope, or a name that is none of the above
handle_user_intent_out_of_scope ==
    /\ pc \in {"first_dispatch", "dispatch"}
    /\ predicted_function_call.function_name \notin RecognizedIntents
    /\ first_prediction' = None
    /\ reflection' = None
    /\ Handled(log_to_user(user_log, "Sorry, I didn't understand that. Please try again.", ""))
    /\ UNCHANGED <<ec2_config, as_config, autoscaling_enabled, conversation_history,
                   run_reflection, predicted_function_call, turn, turn_start, call,
                   turn_calls, llm_response, parsed, poolVars, lookup>>

handle_user_intent ==
    \/ handle_user_intent_ec2_type_selection
    \/ handle_user_intent_confirm
    \/ handle_user_intent_enable_autoscaling
    \/ handle_user_intent_display
    \/ handle_user_intent_modify_ec2_config
    \/ handle_user_intent_modify_as_config
    \/ handle_user_intent_out_of_scope

Next ==
    \/ PromptUser
    \/ FirstClassify
    \/ FirstReflect
    \/ ReadUtterance
    \/ Classify
    \/ Reflect
    \/ AppendResponse
    \/ handle_user_intent

Spec == Init /\ [][Next]_vars

(***************************************************************************)
(* The parser of the model's replies (src/llm/llm_interface.py). A reply   *)
(* text is given by what ast.parse makes of it: the exception it raises,   *)
(* or the statements of the module it returns.                             *)
(***************************************************************************)
BoolV(b) == [t |-> "bool", n |-> IF b THEN 1 ELSE 0]
BytesV(i) == [t |-> "bytes", n |-> i]

\* nodes of the syntax tree
Constant(v) == [node |-> "Constant", value |-> v]
Name(id) == [node |-> "Name", id |-> id]
Attribute(attr) == [node |-> "Attribute", attr |-> attr]
\* -operand
UnaryOp(operand) == [node |-> "UnaryOp", operand |-> operand]
Lambda == [node |-> "Lambda"]
Call(func, args, keywords) ==
    [node |-> "Call", func |-> func, args |-> args, keywords |-> keywords]
Keyword(arg, value) == [arg |-> arg, value |-> value]
\* statements: an expression statement, and an assignment
Expr(value) == [node |-> "Expr", value |-> value]
Assign == [node |-> "Assign"]

NoArgs == <<>>
\* the call b() without arguments
CallB == Call(Name("b"), NoArgs, NoArgs)

\* the replies explored
KeywordValues ==
    {Constant(IntV(MaxVal)), Constant(FloatV(MaxVal)), Constant(SomeText), Constant(BoolV(TRUE)),
     Constant(None), Constant(BytesV(0)), Name("y"), UnaryOp(Constant(IntV(1)))}
KeywordNames == {"cpu", "ram"}
Keywords == {Keyword(a, v) : a \in KeywordNames, v \in KeywordValues}
KeywordLists == UNION {[1..n -> Keywords] : n \in 0..MaxKeywords}
PositionalArgs == {Constant(IntV(1)), CallB}
PositionalLists == UNION {[1..n -> PositionalArgs] : n \in 0..MaxPositional}
Callees == {Name("user_intent_ec2_type_selection"), Name("a"),
            Attribute("user_intent_ec2_type_selection"), Lambda, CallB}
Calls == {Call(f, a, k) : f \in Callees, a \in PositionalLists, k \in KeywordLists}
Statements == {Expr(e) : e \in Calls \cup {Name("y"), Constant(SomeText)}} \cup {Assign}
ShortStatements == {Expr(Call(Name("a"), NoArgs, NoArgs)), Expr(CallB), Expr(Name("y")), Assign}
Bodies == {<<st>> : st \in Statements}
          \cup UNION {[1..n -> ShortStatements] : n \in 0..MaxStatements}
\* what ast.parse may raise: on text that is no Python, on nesting too deep
ParseErrors == {"SyntaxError", "RecursionError"}
Replies == {[raises |-> "none", body |-> b] : b \in Bodies}
           \cup {[raises |-> e, body |-> <<>>] : e \in ParseErrors}

out_of_scope_response == Intent("user_intent_out_of_scope", NoKwargs)

\* str(ast.dump(node)): a text that names the kind of the node
ast_dump(e) ==
    TextV(CASE e.node = "Name" -> 10
            [] e.node = "UnaryOp" -> 11
            [] e.node = "Call" -> 12
            [] e.node = "Constant" -> 13
            [] OTHER -> 14)

\* isinstance(value, (ast.Str, ast.Num, ast.NameConstant)): a constant that is
\* a string, a number that is no bool, a bool or None
IsStrNumNameConstant(e) ==
    /\ e.node = "Constant"
    /\ e.value.t \in {"str", "text", "int", "float", "bool", "none"}

\* the value stored for one keyword
keyword_value(e) == IF IsStrNumNameConstant(e) THEN e.value ELSE ast_dump(e)

\* the loop over call.keywords: a later keyword of the same name wins
RECURSIVE kwargs_of(_)
kwargs_of(keywords) ==
    IF keywords = <<>>
    THEN NoKwargs
    ELSE LET n == Len(keywords)
             front == kwargs_of(SubSeq(keywords, 1, n - 1))
             kw == keywords[n]
         IN  [a \in DOMAIN front \cup {kw.arg} |->
                IF a = kw.arg THEN keyword_value(kw.value) ELSE front[a]]

\* the body of the try block: what it returns, or what it raises
parse_function_call(reply) ==
    IF reply.raises # "none"
    THEN [result |-> None, raised |-> reply.raises]
    ELSE IF Len(reply.body) # 1 \/ reply.body[1].node # "Expr"
    THEN [result |-> out_of_scope_response, raised |-> "none"]
    ELSE LET call_node == reply.body[1].value
         IN  IF call_node.node # "Call"
             THEN [result |-> out_of_scope_response, raised |-> "none"]
             ELSE IF call_node.func.node \notin {"Name", "Attribute"}
             THEN [result |-> out_of_scope_response, raised |-> "none"]
             ELSE LET function_name == IF call_node.func.node = "Name"
                                       THEN call_node.func.id
                                       ELSE call_node.func.attr
                  IN  [result |-> Intent(function_name, kwargs_of(call_node.keywords)),
                       raised |-> "none"]

\* mutant of the parser: only SyntaxError is caught
convert_catches_syntax_error_only(reply) ==
    LET r == parse_function_call(reply)
    IN  IF r.raised = "SyntaxError"
        THEN [result |-> out_of_scope_response, raised |-> "none"]
        ELSE r

\* LLMInterface.convert_raven_function_calling_response_to_function_name_and_args:
\* the try block under except Exception
convert_raven_function_calling_response_to_function_name_and_args(reply) ==
    LET r == parse_function_call(reply)
    IN  IF r.raised # "none"
        THEN [result |-> out_of_scope_response, raised |-> "none"]
        ELSE r

\* SpecParse: a reply of the model, and the parser applied to it
InitParse ==
    /\ ec2_config = EC2InstanceConfig
    /\ as_config = AutoScalingConfig
    /\ autoscaling_enabled = FALSE
    /\ conversation_history = <<>>
    /\ run_reflection = FALSE
    /\ pc = "parse"
    /\ predicted_function_call = None
    /\ first_prediction = None
    /\ user_log = <<>>
    /\ turn = 0
    /\ turn_start = None
    /\ reflection = None
    /\ turn_calls = <<>>
    /\ call = NoCall("")
    /\ llm_response \in Replies
    /\ parsed = None
    /\ pool = None
    /\ threads = <<>>
    /\ database = None
    /\ lookup = None

ParseReply ==
    /\ pc = "parse"
    /\ parsed' = convert_raven_function_calling_response_to_function_name_and_args(llm_response)
    /\ pc' = "parsed"
    /\ UNCHANGED <<ec2_config, as_config, autoscaling_enabled, conversation_history,
                   run_reflection, predicted_function_call, first_prediction, user_log,
                   turn, turn_start, reflection, turn_calls, call, llm_response,
                   poolVars, lookup>>

NextParse == ParseReply

SpecParse == InitParse /\ [][NextParse]_vars

(***************************************************************************)
(* SQLiteConnectionPool (src/utils/sql_utils.py), used by threads through  *)
(* the scope connection(): get_connection, the body, and return_connection *)
(* in the finally clause. Each statement under the lock is a step of its   *)
(* own, so that the steps of the threads interleave wherever the lock      *)
(* allows it.                                                              *)
(***************************************************************************)
Threads == 1..NumThreads
NoThread == 0
NoConnection == 0

\* the connections opened so far that are neither idle in the pool nor closed
CheckedOut ==
    {c \in 1..database.opened :
        /\ c \notin database.closed
        /\ \A i \in DOMAIN pool.connections : pool.connections[i] # c}

\* mutant of lock_free: the lock is not waited for
lock_free_always(lock) == TRUE

\* with self.lock: the lock can be taken when no thread holds it
lock_free(lock) == lock = NoThread

\* mutant of pop: the last connection is returned and left in the list
pop_keeps(connections) ==
    [conn |-> connections[Len(connections)], rest |-> connections]

\* self.connections.pop(): the last connection, and the list without it
pop(connections) ==
    [conn |-> connections[Len(connections)],
     rest |-> SubSeq(connections, 1, Len(connections) - 1)]

\* mutant of after_body: the connection is returned only when the body
\* completes
after_body_without_finally(raised) == IF raised THEN "idle" ELSE "return_lock"

\* try: yield conn finally: self.return_connection(conn), whether or not the
\* body raised
after_body(raised) == "return_lock"

SetThread(t, fields) ==
    threads' = [threads EXCEPT ![t] = fields @@ threads[t]]

\* SpecPool: a pool of some max_connections with no idle connection, and
\* threads outside the scope
InitPool ==
    /\ ec2_config = EC2InstanceConfig
    /\ as_config = AutoScalingConfig
    /\ autoscaling_enabled = FALSE
    /\ conversation_history = <<>>
    /\ run_reflection = FALSE
    /\ pc = "pool"
    /\ predicted_function_call = None
    /\ first_prediction = None
    /\ user_log = <<>>
    /\ turn = 0
    /\ turn_start = None
    /\ reflection = None
    /\ turn_calls = <<>>
    /\ call = NoCall("")
    /\ llm_response = None
    /\ parsed = None
    /\ lookup = None
    /\ \E m \in 1..MaxPoolSize :
        pool = [max_connections |-> m, connections |-> <<>>, lock |-> NoThread]
    /\ threads = [t \in Threads |->
                    [pc |-> "idle", conn |-> NoConnection, test |-> FALSE,
                     raised |-> FALSE, uses |-> 0]]
    /\ database = [opened |-> 0, closed |-> {}]

\* a thread enters with pool.connection() and calls get_connection
EnterScope(t) ==
    /\ threads[t].pc = "idle"
    /\ threads[t].uses < MaxUses
    /\ SetThread(t, [pc |-> "get_lock", uses |-> threads[t].uses + 1, raised |-> FALSE])
    /\ UNCHANGED <<pool, database>>

\* get_connection: with self.lock
GetLock(t) ==
    /\ threads[t].pc = "get_lock"
    /\ lock_free(pool.lock)
    /\ pool' = [pool EXCEPT !.lock = t]
    /\ SetThread(t, [pc |-> "get_test"])
    /\ UNCHANGED database

\* get_connection: if self.connections
GetTest(t) ==
    /\ threads[t].pc = "get_test"
    /\ SetThread(t, [pc |-> "get_take", test |-> pool.connections # <<>>])
    /\ UNCHANGED <<pool, database>>

\* get_connection: return self.connections.pop(), which raises IndexError on
\* an empty list; the lock is released on the way out
GetPop(t) ==
    /\ threads[t].pc = "get_take"
    /\ threads[t].test
    /\ IF pool.connections = <<>>
       THEN /\ pool' = [pool EXCEPT !.lock = NoThread]
            /\ SetThread(t, [pc |-> "idle", raised |-> TRUE])
       ELSE LET popped == pop(pool.connections)
            IN  /\ pool' = [pool EXCEPT !.connections = popped.rest, !.lock = NoThread]
                /\ SetThread(t, [pc |-> "body", conn |-> popped.conn])
    /\ UNCHANGED database

\* mutant of GetConnect: a connection is opened only while fewer than
\* max_connections are checked out
GetConnect_waits_for_capacity(t) ==
    /\ threads[t].pc = "get_take"
    /\ ~threads[t].test
    /\ Cardinality(CheckedOut) < pool.max_connections
    /\ database' = [database EXCEPT !.opened = database.opened + 1]
    /\ pool' = [pool EXCEPT !.lock = NoThread]
    /\ SetThread(t, [pc |-> "body", conn |-> database.opened + 1])

\* get_connection: return sqlite3.connect(self.database); the lock is released
\* on the way out
GetConnect(t) ==
    /\ threads[t].pc = "get_take"
    /\ ~threads[t].test
    /\ database' = [database EXCEPT !.opened = database.opened + 1]
    /\ pool' = [pool EXCEPT !.lock = NoThread]
    /\ SetThread(t, [pc |-> "body", conn |-> database.opened + 1])

\* the body of the with statement completes or raises
Body(t) ==
    /\ threads[t].pc = "body"
    /\ \E raised \in BOOLEAN :
        SetThread(t, [pc |-> after_body(raised), raised |-> raised])
    /\ UNCHANGED <<pool, database>>

\* return_connection: with self.lock
ReturnLock(t) ==
    /\ threads[t].pc = "return_lock"
    /\ lock_free(pool.lock)
    /\ pool' = [pool EXCEPT !.lock = t]
    /\ SetThread(t, [pc |-> "return_test"])
    /\ UNCHANGED database

\* return_connection: if len(self.connections) < self.max_connections
ReturnTest(t) ==
    /\ threads[t].pc = "return_test"
    /\ SetThread(t, [pc |-> "return_put",
                     test |-> Len(pool.connections) < pool.max_connections])
    /\ UNCHANGED <<pool, database>>

\* return_connection: self.connections.append(connection); the lock is
\* released and the scope is left
ReturnAppend(t) ==
    /\ threads[t].pc = "return_put"
    /\ threads[t].test
    /\ pool' = [pool EXCEPT !.connections = Append(pool.connections, threads[t].conn),
                            !.lock = NoThread]
    /\ SetThread(t, [pc |-> "idle", conn |-> NoConnection])
    /\ UNCHANGED database

\* return_connection: connection.close(); the lock is released and the scope
\* is left
ReturnClose(t) ==
    /\ threads[t].pc = "return_put"
    /\ ~threads[t].test
    /\ database' = [database EXCEPT !.closed = database.closed \cup {threads[t].conn}]
    /\ pool' = [pool EXCEPT !.lock = NoThread]
    /\ SetThread(t, [pc |-> "idle", conn |-> NoConnection])

NextPool ==
    /\ pc = "pool"
    /\ \E t \in Threads :
        \/ EnterScope(t)
        \/ GetLock(t)
        \/ GetTest(t)
        \/ GetPop(t)
        \/ GetConnect(t)
        \/ Body(t)
        \/ ReturnLock(t)
        \/ ReturnTest(t)
        \/ ReturnAppend(t)
        \/ ReturnClose(t)
    /\ UNCHANGED <<ec2_config, as_config, autoscaling_enabled, conversation_history,
                   run_reflection, pc, predicted_function_call, first_prediction, user_log,
                   call, turn, turn_start, reflection, turn_calls, llm_response, parsed,
                   lookup>>

SpecPool == InitPool /\ [][NextPool]_vars

(***************************************************************************)
(* find_best_instance (src/utils/sql_utils.py) over the table ec2_rec. A   *)
(* row carries the columns the query reads: vCPUs and Instance_Memory,     *)
(* numeric, and On_Demand, numeric or NULL. The other columns of a row are *)
(* carried into the result unread.                                         *)
(***************************************************************************)
\* config.DEFAULT_RAM (8.0) and config.DEFAULT_CPU
DEFAULT_RAM == 8
DEFAULT_CPU == 2

\* a Python int binds to an SQLite INTEGER when it fits in a signed 64-bit
\* word, that is when its magnitude is below 2^63
SQLiteIntegerBits == 63

\* the Python int 2^e
Pow2V(e) == [t |-> "bigint", n |-> e]

NULL == None

\* the rows a table may hold
Rows ==
    [vCPUs : 1..MaxVal,
     Instance_Memory : {4 * k : k \in 1..MaxVal},
     On_Demand : {NULL} \cup {IntV(p) : p \in 1..MaxVal}]

\* the tables of at most MaxRows rows
Datasets ==
    UNION {{{rows[i] : i \in 1..k} : rows \in [1..k -> Rows]} : k \in 0..MaxRows}

\* the values the classifier may give for cpu
CpuValues ==
    {None, IntV(1), IntV(MaxVal), IntV(MaxVal + 1), StrV(MaxVal), SomeText,
     Pow2V(SQLiteIntegerBits - 1), Pow2V(SQLiteIntegerBits)}

\* the values the classifier may give for ram
RamValues ==
    {None, IntV(4), FloatV(DEFAULT_RAM), IntV(4 * MaxVal + 1), Pow2V(SQLiteIntegerBits)}

\* the keyword arguments of a lookup: each of cpu and ram absent or present
LookupKwargs ==
    {NoKwargs}
    \cup {[k \in {"cpu"} |-> c] : c \in CpuValues}
    \cup {[k \in {"ram"} |-> r] : r \in RamValues}
    \cup {[k \in {"cpu", "ram"} |-> IF k = "cpu" THEN c ELSE r] :
            c \in CpuValues, r \in RamValues}

\* def find_best_instance(cpu=config.DEFAULT_CPU, ram=config.DEFAULT_RAM): a
\* parameter takes its default only when the keyword is absent
BoundCpu(kwargs) ==
    IF "cpu" \in DOMAIN kwargs THEN kwargs["cpu"] ELSE IntV(DEFAULT_CPU)

BoundRam(kwargs) ==
    IF "ram" \in DOMAIN kwargs THEN kwargs["ram"] ELSE FloatV(DEFAULT_RAM)

\* cursor.execute binds the value: OverflowError for an int too wide for an
\* SQLite INTEGER, sqlite3.ProgrammingError for a type sqlite3 does not
\* support
BindError(v) ==
    IF v.t = "bigint" /\ v.n >= SQLiteIntegerBits THEN "OverflowError"
    ELSE IF v.t \in {"int", "bigint", "float", "str", "text", "bytes", "bool", "none"}
         THEN "none"
    ELSE "sqlite3.ProgrammingError"

\* column >= ? for a numeric column: NULL compares as not true, a number or a
\* numeric string compares by value, any other text or a blob sorts above
\* every number; 2^e is above every value of a column here
ColumnAtLeast(column, v) ==
    /\ v.t \in {"int", "float", "str", "bool"}
    /\ column >= v.n

\* WHERE vCPUs >= ? AND Instance_Memory >= ? AND On_Demand IS NOT NULL
Matching(dataset, cpu, ram) ==
    {row \in dataset :
        /\ ColumnAtLeast(row.vCPUs, cpu)
        /\ ColumnAtLeast(row.Instance_Memory, ram)
        /\ row.On_Demand # NULL}

\* ORDER BY On_Demand ASC LIMIT 1: the rows one of which is fetched; the
\* order among rows of equal price is SQLite's
Cheapest(rows) ==
    {row \in rows : \A other \in rows : row.On_Demand.n <= other.On_Demand.n}

\* the outcomes of find_best_instance(**kwargs) over the table
find_best_instance(dataset, kwargs) ==
    LET cpu == BoundCpu(kwargs)
        ram == BoundRam(kwargs)
        errors == {BindError(cpu), BindError(ram)} \ {"none"}
        rows == Matching(dataset, cpu, ram)
        made == [kwargs |-> kwargs, cpu |-> cpu, ram |-> ram]
    IN  IF "OverflowError" \in errors
        THEN {made @@ [raised |-> "OverflowError", found |-> FALSE, row |-> NULL,
                       message |-> None]}
        ELSE IF errors # {}
        THEN {made @@ [raised |-> "none", found |-> FALSE, row |-> NULL,
                       message |-> [text |-> "Database error occurred:",
                                    cpu |-> None, ram |-> None]]}
        ELSE IF rows # {}
        THEN {made @@ [raised |-> "none", found |-> TRUE, row |-> row, message |-> None] :
                row \in Cheapest(rows)}
        ELSE {made @@ [raised |-> "none", found |-> FALSE, row |-> NULL,
                       message |-> [text |-> "No instance found with CPU >= , RAM >= ",
                                    cpu |-> cpu, ram |-> ram]]}

\* SpecLookup: a table of rows, and no lookup made yet
InitLookup ==
    /\ ec2_config = EC2InstanceConfig
    /\ as_config = AutoScalingConfig
    /\ autoscaling_enabled = FALSE
    /\ conversation_history = <<>>
    /\ run_reflection = FALSE
    /\ pc = "lookup"
    /\ predicted_function_call = None
    /\ first_prediction = None
    /\ user_log = <<>>
    /\ turn = 0
    /\ turn_start = None
    /\ reflection = None
    /\ turn_calls = <<>>
    /\ call = NoCall("")
    /\ llm_response = None
    /\ parsed = None
    /\ pool = None
    /\ threads = <<>>
    /\ \E dataset \in Datasets : database = [ec2_rec |-> dataset]
    /\ lookup = None

\* find_best_instance is called with some keyword arguments
FindBestInstance ==
    /\ pc = "lookup"
    /\ lookup = None
    /\ \E kwargs \in LookupKwargs :
        \E result \in find_best_instance(database.ec2_rec, kwargs) :
            lookup' = result
    /\ UNCHANGED <<ec2_config, as_config, autoscaling_enabled, conversation_history,
                   run_reflection, pc, predicted_function_call, first_prediction, user_log,
                   call, turn, turn_start, reflection, turn_calls, llm_response, parsed,
                   poolVars>>

NextLookup == FindBestInstance

SpecLookup == InitLookup /\ [][NextLookup]_vars

(***************************************************************************)
(* What the claims speak of.                                               *)
(***************************************************************************)
\* a value an integer field with lower bound 1 admits
IsCount(v) == v.t \in {"int", "float", "str"} /\ v.n >= 1

IsString(v) == v.t \in {"str", "text"}

\* the field bounds and cross-field rules of a config of the class
SatisfiesRules(cls, cfg) ==
    IF cls = "EC2InstanceConfig"
    THEN /\ cfg["InstanceType"] = None \/ IsString(cfg["InstanceType"])
         /\ IsString(cfg["ImageId"])
         /\ IsCount(cfg["MinCount"])
         /\ IsCount(cfg["MaxCount"])
         /\ cfg["MinCount"].n <= cfg["MaxCount"].n
    ELSE /\ IsCount(cfg["MinSize"])
         /\ IsCount(cfg["MaxSize"])
         /\ IsCount(cfg["DesiredCapacity"])
         /\ IsString(cfg["LaunchTemplateName"])
         /\ IsString(cfg["VPCZoneIdentifier"])
         /\ cfg["AvailabilityZones"].t = "list"
         /\ cfg["MinSize"].n <= cfg["MaxSize"].n
         /\ cfg["MinSize"].n <= cfg["DesiredCapacity"].n
         /\ cfg["DesiredCapacity"].n <= cfg["MaxSize"].n

\* the prospective configuration: the values before the call overlaid with
\* the supplied values that are not None
Prospective(cls, before, kwargs) ==
    [k \in Fields(cls) |->
        IF k \in DOMAIN kwargs /\ kwargs[k] # None THEN kwargs[k] ELSE before[k]]

\* kwargs with every key but k removed
Only(kwargs, k) == [j \in {k} |-> kwargs[j]]

\* the config the last modify_config call was made on, as it is now
CalledConfig == IF call.cls = "EC2InstanceConfig" THEN ec2_config ELSE as_config

\* a modify_config call has just returned or raised
Called == call.calls = 1

\* how many messages of the log tell that key is no attribute
Warnings(log, key) ==
    Cardinality({i \in DOMAIN log : log[i].kind = "has no attribute" /\ log[i].arg = key})

C4_CommitsExactlySupplied ==
    (/\ Called
     /\ DOMAIN call.kwargs \subseteq Fields(call.cls)
     /\ SatisfiesRules(call.cls, Prospective(call.cls, call.before, call.kwargs)))
    => /\ CalledConfig = Prospective(call.cls, call.before, call.kwargs)
       /\ call.raised = "none"

\* two fields committed by one call, one of them a numeric string
C4_Witness ==
    /\ Called
    /\ call.before = EC2InstanceConfig
    /\ call.kwargs = [InstanceType |-> InstanceName, MaxCount |-> StrV(2)]
    /\ ec2_config = [EC2InstanceConfig EXCEPT !["InstanceType"] = InstanceName,
                                              !["MaxCount"] = StrV(2)]

\* C5: an update of fields whose prospective configuration satisfies the
\* rules commits in full, and nothing is reported, also when one of its
\* fields supplied alone would violate a rule against the values before.
C5_ValidatesWholeProspective ==
    (/\ Called
     /\ DOMAIN call.kwargs \subseteq Fields(call.cls)
     /\ SatisfiesRules(call.cls, Prospective(call.cls, call.before, call.kwargs))
     /\ \E k \in DOMAIN call.kwargs :
            ~SatisfiesRules(call.cls, Prospective(call.cls, call.before, Only(call.kwargs, k))))
    => /\ \A k \in DOMAIN call.kwargs : call.kwargs[k] # None => CalledConfig[k] = call.kwargs[k]
       /\ call.log = <<>>

\* the scaling defaults 1, 1, 1 and an update of MaxSize and DesiredCapacity
C5_Witness ==
    /\ Called
    /\ call.before = AutoScalingConfig
    /\ call.kwargs = [MaxSize |-> IntV(2), DesiredCapacity |-> IntV(2)]
    /\ as_config["MaxSize"] = IntV(2)
    /\ as_config["DesiredCapacity"] = IntV(2)
    /\ as_config["MinSize"] = IntV(1)

\* the keys of the update that are no field and carry a value
UnknownKeys(cls, kwargs) == {k \in DOMAIN kwargs : k \notin Fields(cls) /\ kwargs[k] # None}

\* C6: for every key of the update that is no field and carries a value, the
\* logging function is called exactly once with a message naming the key,
\* the call returns, and the fields of the update are committed when the
\* prospective configuration satisfies the rules.
C6_UnknownKeyRejectedOnce ==
    (Called /\ UnknownKeys(call.cls, call.kwargs) # {})
    => /\ \A k \in UnknownKeys(call.cls, call.kwargs) : Warnings(call.log, k) = 1
       /\ call.raised = "none"
       /\ SatisfiesRules(call.cls, Prospective(call.cls, call.before, call.kwargs))
            => CalledConfig = Prospective(call.cls, call.before, call.kwargs)

\* C7: an update with no keys, or whose every key carries None, changes no
\* field and calls the logging function not at all.
C7_EmptyUpdateIsSilentNoop ==
    (Called /\ \A k \in DOMAIN call.kwargs : call.kwargs[k] = None)
    => /\ CalledConfig = call.before
       /\ call.log = <<>>

\* C8: a field that is absent from the update, or present with None, keeps
\* its value, and no field that held a value holds None after the call.
C8_UnsetKeepsValue ==
    Called =>
        \A k \in Fields(call.cls) :
            /\ (k \notin DOMAIN call.kwargs \/ call.kwargs[k] = None)
                    => CalledConfig[k] = call.before[k]
            /\ call.before[k] # None => CalledConfig[k] # None

\* InstanceType holds a name and the update carries InstanceType=None
C8_Witness ==
    /\ Called
    /\ call.cls = "EC2InstanceConfig"
    /\ call.before["InstanceType"] = InstanceName
    /\ "InstanceType" \in DOMAIN call.kwargs
    /\ call.kwargs["InstanceType"] = None
    /\ ec2_config["InstanceType"] = InstanceName

\* the handler of the predicted intent has run in this turn
Dispatched ==
    /\ pc \in {"read", "ended"}
    /\ predicted_function_call # None
    /\ first_prediction = None

DispatchedIntent(name) ==
    Dispatched /\ predicted_function_call.function_name = name

\* C2: in every state of the session the instance config has
\* MinCount <= MaxCount.
C2_InstanceCountsOrdered ==
    /\ IsCount(ec2_config["MinCount"])
    /\ IsCount(ec2_config["MaxCount"])
    /\ ec2_config["MinCount"].n <= ec2_config["MaxCount"].n

\* an intent that asks for MinCount=2 against MaxCount=1 has been dispatched
C2_Witness ==
    /\ DispatchedIntent("user_intent_modify_ec2_config")
    /\ predicted_function_call.kwargs = [MinCount |-> IntV(2)]
    /\ turn > 1

\* C3: in every state of the session the scaling config has
\* MinSize <= MaxSize and MinSize <= DesiredCapacity <= MaxSize.
C3_ScalingSizesOrdered ==
    /\ IsCount(as_config["MinSize"])
    /\ IsCount(as_config["MaxSize"])
    /\ IsCount(as_config["DesiredCapacity"])
    /\ as_config["MinSize"].n <= as_config["MaxSize"].n
    /\ as_config["MinSize"].n <= as_config["DesiredCapacity"].n
    /\ as_config["DesiredCapacity"].n <= as_config["MaxSize"].n

\* an intent that asks for MinSize=2 against MaxSize=1 has been dispatched
C3_Witness ==
    /\ DispatchedIntent("user_intent_modify_as_config")
    /\ predicted_function_call.kwargs = [MinSize |-> IntV(2)]
    /\ turn > 1

\* the last line written in this turn is the prompt that ends a display
DisplayedLast ==
    /\ user_log # <<>>
    /\ user_log[Len(user_log)].kind = "How does this look?"

\* the class a modify intent updates and its config at the start of the turn
\* and now
ModifiedClass ==
    IF predicted_function_call.function_name = "user_intent_modify_ec2_config"
    THEN "EC2InstanceConfig" ELSE "AutoScalingConfig"

ModifiedBefore ==
    IF predicted_function_call.function_name = "user_intent_modify_ec2_config"
    THEN turn_start.ec2_config ELSE turn_start.as_config

ModifiedNow ==
    IF predicted_function_call.function_name = "user_intent_modify_ec2_config"
    THEN ec2_config ELSE as_config

DispatchedModify ==
    \/ DispatchedIntent("user_intent_modify_ec2_config")
    \/ DispatchedIntent("user_intent_modify_as_config")

\* C9: after the dispatch of a modify intent whose fields form a valid
\* update, the config holds the update, the configuration has been displayed
\* and the session is at its next read.
C9_ModifyIntentAppliesAndContinues ==
    (/\ DispatchedModify
     /\ DOMAIN predicted_function_call.kwargs \subseteq Fields(ModifiedClass)
     /\ SatisfiesRules(ModifiedClass,
            Prospective(ModifiedClass, ModifiedBefore, predicted_function_call.kwargs)))
    => /\ ModifiedNow = Prospective(ModifiedClass, ModifiedBefore,
                                    predicted_function_call.kwargs)
       /\ DisplayedLast
       /\ pc = "read"

\* C10: after the dispatch of a modify intent that carries a key that is no
\* field, or values that violate a rule, the user has been sent the warning
\* or the validation message and the session has not ended.
C10_ModifyIntentErrorRecovered ==
    (/\ DispatchedModify
     /\ \/ ~(DOMAIN predicted_function_call.kwargs \subseteq Fields(ModifiedClass))
        \/ ~SatisfiesRules(ModifiedClass,
                Prospective(ModifiedClass, ModifiedBefore, predicted_function_call.kwargs)))
    => /\ pc = "read"
       /\ \E i \in DOMAIN user_log :
            user_log[i].kind \in {"has no attribute",
                                  "The modifications you specified are invalid."}

\* C11: after the dispatch of confirm, deploy has been called exactly once in
\* the turn, with the instance config, the scaling config and the flag as they
\* were when confirm was dispatched, and both configs and the flag are as they
\* were.
C11_ConfirmDeploysCurrentOnce ==
    DispatchedIntent("user_intent_confirm")
    => /\ Len(turn_calls) = 1
       /\ turn_calls[1].op = "deploy"
       /\ turn_calls[1].ec2_config = turn_start.ec2_config
       /\ turn_calls[1].as_config = turn_start.as_config
       /\ turn_calls[1].autoscaling_enabled = turn_start.autoscaling_enabled
       /\ Snapshot = turn_start

\* confirm has been dispatched in a later turn, after autoscaling was enabled
\* and an instance type was selected
C11_Witness ==
    /\ DispatchedIntent("user_intent_confirm")
    /\ turn > 2
    /\ autoscaling_enabled
    /\ ec2_config["InstanceType"] # None
    /\ Len(turn_calls) = 1
    /\ turn_calls[1].autoscaling_enabled

\* C12: after the dispatch of the out-of-scope intent, or of an intent whose
\* name is none of the six recognized names, with any arguments, the user has
\* been sent the fixed "didn't understand" message and nothing else, and both
\* configs and the flag are as they were at the start of the turn.
C12_UnrecognizedIntentChangesNothing ==
    (/\ Dispatched
     /\ predicted_function_call.function_name \notin RecognizedIntents)
    => /\ user_log = <<Message(LogToUserFn,
                               "Sorry, I didn't understand that. Please try again.", "")>>
       /\ Snapshot = turn_start
       /\ turn_calls = <<>>

\* an intent of an unlisted name that carries an argument has been dispatched
\* after autoscaling was enabled
C12_Witness ==
    /\ DispatchedIntent("user_intent_unlisted")
    /\ predicted_function_call.kwargs = [MinCount |-> IntV(2)]
    /\ autoscaling_enabled
    /\ user_log # <<>>

\* the lookup of a dispatched instance-type-selection and its result
Lookup == turn_calls[1].result

LookedUp ==
    /\ DispatchedIntent("user_intent_ec2_type_selection")
    /\ Len(turn_calls) = 1
    /\ turn_calls[1].op = "find_best_instance"

\* C13: after the dispatch of instance-type-selection whose lookup found an
\* instance, InstanceType is the found name, every other field of the instance
\* config, the scaling config and the flag are as they were at the start of
\* the turn, and the configuration, with the new type, has been displayed.
C13_HitSetsInstanceTypeOnly ==
    (LookedUp /\ Lookup.found)
    => /\ ec2_config = [turn_start.ec2_config EXCEPT !["InstanceType"] = Lookup.API_Name]
       /\ as_config = turn_start.as_config
       /\ autoscaling_enabled = turn_start.autoscaling_enabled
       /\ DisplayedLast
       /\ \E i \in DOMAIN user_log :
            /\ user_log[i].kind = "Recommended optimized EC2 config:"
            /\ user_log[i].arg = to_dict(ec2_config)
            /\ user_log[i].arg["InstanceType"] = Lookup.API_Name

\* a lookup has found an instance when another type was already selected
C13_Witness ==
    /\ LookedUp
    /\ Lookup.found
    /\ turn_start.ec2_config["InstanceType"] \notin {None, Lookup.API_Name}
    /\ ec2_config["InstanceType"] = Lookup.API_Name

\* C14: after the dispatch of instance-type-selection whose lookup found no
\* instance, the user has been sent the message of the lookup and nothing
\* else, both configs and the flag are as they were at the start of the turn,
\* and the session is at its next read.
C14_MissRelaysMessageOnly ==
    (LookedUp /\ ~Lookup.found)
    => /\ user_log = <<Message(LogToUserFn, Lookup.message, "")>>
       /\ Snapshot = turn_start
       /\ pc = "read"

\* a lookup has found no instance after a type was selected and autoscaling
\* was enabled
C14_Witness ==
    /\ LookedUp
    /\ ~Lookup.found
    /\ ec2_config["InstanceType"] # None
    /\ autoscaling_enabled
    /\ Len(user_log) = 1

\* the line of the turn's output is the display of the instance config,
\* of the scaling config
ShowsEC2(i) ==
    /\ i \in DOMAIN user_log
    /\ user_log[i] = Message(LogToUserFn, "Recommended optimized EC2 config:",
                             to_dict(ec2_config))

ShowsAS(i) ==
    /\ i \in DOMAIN user_log
    /\ user_log[i] = Message(LogToUserFn, "Recommended optimized AutoScaling config:",
                             to_dict(as_config))

\* C15: every display of the configuration shows the instance config, then
\* the scaling config exactly if autoscaling is enabled, then the prompt
\* "How does this look?"; while autoscaling is not enabled no line of output
\* shows the scaling config.
C15_DisplayShowsScalingIffEnabled ==
    /\ \A i \in DOMAIN user_log :
        /\ user_log[i].kind = "How does this look?"
            => IF autoscaling_enabled
               THEN ShowsEC2(i - 2) /\ ShowsAS(i - 1)
               ELSE ShowsEC2(i - 1)
        /\ user_log[i].kind = "Recommended optimized EC2 config:"
            => /\ i + 1 \in DOMAIN user_log
               /\ user_log[i + 1].kind = IF autoscaling_enabled
                                         THEN "Recommended optimized AutoScaling config:"
                                         ELSE "How does this look?"
        /\ user_log[i].kind = "Recommended optimized AutoScaling config:"
            => /\ autoscaling_enabled
               /\ ShowsEC2(i - 1)
               /\ i + 1 \in DOMAIN user_log
               /\ user_log[i + 1].kind = "How does this look?"

\* the configuration has been displayed with the scaling config, by a type
\* selection after autoscaling was enabled
C15_Witness ==
    /\ DispatchedIntent("user_intent_ec2_type_selection")
    /\ autoscaling_enabled
    /\ Len(user_log) = 3
    /\ ShowsEC2(1)
    /\ ShowsAS(2)
    /\ user_log[3].kind = "How does this look?"

IsPrefix(s, t) == Len(s) <= Len(t) /\ SubSeq(t, 1, Len(s)) = s

\* C16: every step of the session leaves the transcript as it was or extends
\* it: the transcript before the step is a prefix of the transcript after it.
C16_TranscriptAppendOnly ==
    [][IsPrefix(conversation_history, conversation_history')]_vars

\* the transcript holds the records of two turns
C16_Witness ==
    /\ turn = 2
    /\ pc = "dispatch"
    /\ Len(conversation_history) = 4
    /\ conversation_history[3] = Human(2)
    /\ conversation_history[4].role = "bot"

Last(s) == s[Len(s)]

\* the transcript ends with the utterance of this turn and the agent record
\* of its classification
EndsWithAgentRecord ==
    /\ Len(conversation_history) >= 2
    /\ conversation_history[Len(conversation_history) - 1] = Human(turn)
    /\ Last(conversation_history) = Bot(first_prediction)

\* C17: on every turn the utterance is in the transcript when the classifier
\* runs, and the utterance and the agent record of the classification are in
\* the transcript, as its last two records, when reflection runs and when the
\* intent is dispatched.
C17_AgentRecordPrecedesReflection ==
    /\ pc \in {"first_classify", "classify"}
        => conversation_history # <<>> /\ Last(conversation_history) = Human(turn)
    /\ pc \in {"first_reflect", "reflect"} => EndsWithAgentRecord
    /\ pc \in {"first_dispatch", "dispatch"}
        => /\ Len(conversation_history) >= 2
           /\ conversation_history[Len(conversation_history) - 1] = Human(turn)
           /\ Last(conversation_history).role = "bot"

\* C18: the intent handed to the dispatcher is the result of reflect when
\* reflection is enabled, and the result of the classifier when it is not.
C18_DispatchedIsReflectionResult ==
    pc \in {"first_dispatch", "dispatch"}
    => predicted_function_call = IF run_reflection THEN reflection ELSE first_prediction

\* reflection has returned an intent of another name and other arguments than
\* the classifier, and the dispatcher is about to run
C18_Witness ==
    /\ pc = "first_dispatch"
    /\ run_reflection
    /\ Last(conversation_history).text.function_name = "user_intent_modify_ec2_config"
    /\ reflection = Intent("user_intent_ec2_type_selection", [cpu |-> IntV(2)])
    /\ predicted_function_call = reflection

\* the reply is exactly one statement that is a call
SingleCall ==
    /\ llm_response.raises = "none"
    /\ Len(llm_response.body) = 1
    /\ llm_response.body[1].node = "Expr"
    /\ llm_response.body[1].value.node = "Call"

TheCall == llm_response.body[1].value

\* the reply is no single call of a name or an attribute, or its parsing
\* raised
ParseFailure ==
    \/ ~SingleCall
    \/ TheCall.func.node \notin {"Name", "Attribute"}

\* C19: the parser raises on no reply, and on a reply that cannot be parsed,
\* has several statements or none, is no call, or calls what is neither a
\* name nor an attribute, it returns the out-of-scope sentinel with empty
\* arguments.
C19_ParsingIsTotal ==
    pc = "parsed"
    => /\ parsed.raised = "none"
       /\ ParseFailure
            => parsed.result = [function_name |-> "user_intent_out_of_scope",
                                kwargs |-> NoKwargs]

\* the parser has returned the sentinel for a reply whose parsing raised an
\* error that is no syntax error
C19_Witness ==
    /\ pc = "parsed"
    /\ llm_response.raises = "RecursionError"
    /\ parsed.raised = "none"
    /\ parsed.result.function_name = "user_intent_out_of_scope"

\* C20: a reply that is one call with positional arguments is parsed to the
\* out-of-scope sentinel with empty arguments.
C20_PositionalArgumentsAreOutOfScope ==
    (/\ pc = "parsed"
     /\ SingleCall
     /\ TheCall.args # <<>>)
    => parsed.result = [function_name |-> "user_intent_out_of_scope", kwargs |-> NoKwargs]

\* the source text of an expression, as a string: a text that is not the
\* dump of any node
SourceText(e) ==
    TextV(CASE e.node = "Name" -> 20
            [] e.node = "UnaryOp" -> 21
            [] e.node = "Call" -> 22
            [] e.node = "Constant" -> 23
            [] OTHER -> 24)

\* a number, string, boolean or None literal
IsLiteral(e) ==
    /\ e.node = "Constant"
    /\ e.value.t \in {"int", "float", "str", "text", "bool", "none"}

\* the reply is one call of a name or an attribute with keyword arguments
\* only, each keyword given once
KeywordOnlyCall ==
    /\ SingleCall
    /\ TheCall.func.node \in {"Name", "Attribute"}
    /\ TheCall.args = <<>>
    /\ \A i, j \in DOMAIN TheCall.keywords :
        TheCall.keywords[i].arg = TheCall.keywords[j].arg => i = j

\* C21: a reply that is one call with keyword arguments only is parsed to the
\* name of the callee (of a dotted callee, its last component) and a mapping
\* with one entry per keyword: the value of a number, string, boolean or None
\* literal, and of any other expression its source text.
C21_KeywordValuesLiteralOrSourceText ==
    (pc = "parsed" /\ KeywordOnlyCall)
    => /\ parsed.result.function_name = IF TheCall.func.node = "Name"
                                        THEN TheCall.func.id ELSE TheCall.func.attr
       /\ DOMAIN parsed.result.kwargs = {TheCall.keywords[i].arg : i \in DOMAIN TheCall.keywords}
       /\ \A i \in DOMAIN TheCall.keywords :
            LET kw == TheCall.keywords[i]
            IN  parsed.result.kwargs[kw.arg] =
                    IF IsLiteral(kw.value) THEN kw.value.value ELSE SourceText(kw.value)

\* a request to the model endpoint has failed in this turn
EndpointFailed ==
    \E i \in DOMAIN turn_calls : turn_calls[i].op = "raven_llm_query"

\* C22: when a request of the classifier or of reflection to the model
\* endpoint has failed, no intent has been dispatched in the turn (the failure
\* is the only call of the turn, and both configs and the flag are as they
\* were), the one message of the turn is the top-level error message, and the
\* session has ended; a session that has ended takes no further step.
C22_EndpointFailureEndsSession ==
    /\ [](EndpointFailed
          => /\ pc = "ended"
             /\ ~Dispatched
             /\ Len(turn_calls) = 1
             /\ user_log = <<Message(LogToUserFn, "Error:", turn_calls[1].raised)>>
             /\ Snapshot = turn_start)
    /\ [][pc = "ended" => pc' = "ended"]_vars

\* the request of reflection has failed in a later turn, after the classifier
\* had returned an intent
C22_Witness ==
    /\ EndpointFailed
    /\ turn > 1
    /\ run_reflection
    /\ first_prediction # None
    /\ first_prediction.function_name = "user_intent_confirm"
    /\ pc = "ended"

\* the texts in which deploy reports a failure of the backend
DeployFailureTexts ==
    {"Failed to create Launch Template. Aborting deployment.",
     "Error creating Auto Scaling group:",
     "An error occurred during deployment:"}

\* C23: after the dispatch of a confirm in which a step of the backend
\* failed, the failure has been reported as a line written through
\* log_to_user, no top-level error message has been written, and the session
\* is at its next read.
C23_DeployFailureIsReported ==
    (/\ DispatchedIntent("user_intent_confirm")
     /\ turn_calls[1].outcome \in DeployFailures)
    => /\ pc = "read"
       /\ \E i \in DOMAIN user_log :
            /\ user_log[i].kind \in DeployFailureTexts
            /\ user_log[i].sink = LogToUserFn
       /\ \A i \in DOMAIN user_log : user_log[i].kind # "Error:"

\* a confirm whose deployment yielded no instance ids has been dispatched
C23_Witness ==
    /\ DispatchedIntent("user_intent_confirm")
    /\ turn_calls[1].outcome = "no_instances"
    /\ autoscaling_enabled
    /\ user_log[Len(user_log)].kind = "An error occurred during deployment:"
    /\ user_log[Len(user_log)].arg = "IndexError"

\* the threads that hold the connection
Holders(c) == {t \in Threads : threads[t].conn = c}

\* the number of times the connection is in the idle list
IdleCount(c) == Cardinality({i \in DOMAIN pool.connections : pool.connections[i] = c})

\* C24: a thread that is outside the scope holds no connection, and every
\* connection that is checked out is held by a thread inside the scope: when
\* the scope is left, after a body that completed or raised, its connection
\* is in the idle list or closed.
C24_ScopeAlwaysReleases ==
    /\ \A t \in Threads : threads[t].pc = "idle" => threads[t].conn = NoConnection
    /\ \A c \in CheckedOut : \E t \in Threads : threads[t].conn = c /\ threads[t].pc # "idle"

\* a thread has left the scope after its body raised, and the connection it
\* had is closed because the idle list was full
C24_Witness ==
    \E t \in Threads :
        /\ threads[t].pc = "idle"
        /\ threads[t].raised
        /\ threads[t].uses > 0
        /\ database.closed # {}
        /\ CheckedOut = {}
        /\ Len(pool.connections) = pool.max_connections

\* C25: every connection opened is in exactly one place: held by one thread,
\* once in the idle list, or closed.
C25_ConnectionInOnePlace ==
    \A c \in 1..database.opened :
        Cardinality(Holders(c)) + IdleCount(c) + (IF c \in database.closed THEN 1 ELSE 0) = 1

\* both threads hold a connection at once, one of them taken from the idle
\* list
C25_Witness ==
    /\ threads[1].conn # NoConnection
    /\ threads[2].conn # NoConnection
    /\ threads[1].pc = "body"
    /\ threads[2].pc = "body"
    /\ \E t \in Threads : threads[t].test /\ threads[t].uses > 1

\* C26: the idle list never holds more than max_connections connections.
C26_IdleListBounded ==
    Len(pool.connections) <= pool.max_connections

\* a connection has been closed on return because the idle list was full
C26_Witness ==
    /\ database.closed # {}
    /\ Len(pool.connections) = pool.max_connections
    /\ \A t \in Threads : threads[t].pc = "idle"

\* a value of the declared type int that is at least 1
IsPositiveInt(v) == v.t = "int" /\ v.n >= 1

LookupMade == pc = "lookup" /\ lookup # None

\* the argument is not specified: absent, or present with the value None
Unspecified(kwargs, key) == key \notin DOMAIN kwargs \/ kwargs[key] = None

\* C28: when cpu or ram is not specified in the keyword arguments of a
\* lookup (absent, or None), the lookup is made with the default threshold
\* for it: cpu 2, ram 8.0.
C28_UnspecifiedTakesDefault ==
    LookupMade
    => /\ Unspecified(lookup.kwargs, "cpu") => lookup.cpu = IntV(2)
       /\ Unspecified(lookup.kwargs, "ram") => lookup.ram = FloatV(8)

\* the threshold is a number: an int, a float, or the int 2^e
IsThreshold(v) == v.t \in {"int", "float", "bigint"}

\* the value of a column is at least the threshold; 2^e is above every value
\* of a column
Meets(column, v) == v.t # "bigint" /\ column >= v.n

\* the rows of the table that meet the request and have a price
Eligible ==
    {row \in database.ec2_rec :
        /\ row.On_Demand # NULL
        /\ Meets(row.vCPUs, lookup.cpu)
        /\ Meets(row.Instance_Memory, lookup.ram)}

\* C29: for every table and every request of a number of cpus and an amount
\* of ram, find_best_instance does not raise; when some row has vCPUs >= cpu,
\* memory >= ram and a price, it returns found with such a row of least
\* price; otherwise it returns not found with a message that contains the
\* thresholds of the request.
C29_CheapestEligibleOrMiss ==
    (LookupMade /\ IsThreshold(lookup.cpu) /\ IsThreshold(lookup.ram))
    => /\ lookup.raised = "none"
       /\ IF Eligible # {}
          THEN /\ lookup.found
               /\ lookup.row \in Eligible
               /\ \A row \in Eligible : lookup.row.On_Demand.n <= row.On_Demand.n
          ELSE /\ ~lookup.found
               /\ lookup.message.cpu = lookup.cpu
               /\ lookup.message.ram = lookup.ram

C31_AutoscalingEnabledMonotonic ==
    /\ ~autoscaling_enabled
    /\ [][/\ autoscaling_enabled => autoscaling_enabled'
          /\ (~autoscaling_enabled /\ autoscaling_enabled')
                => /\ pc \in {"first_dispatch", "dispatch"}
                   /\ predicted_function_call.function_name = "user_intent_enable_autoscaling"
                   /\ ec2_config' = ec2_config
                   /\ as_config' = as_config]_vars

\* autoscaling was enabled in an earlier turn, and enable-autoscaling has been
\* dispatched again in a later one
C31_Witness ==
    /\ DispatchedIntent("user_intent_enable_autoscaling")
    /\ turn_start # None
    /\ turn_start.autoscaling_enabled
    /\ autoscaling_enabled
    /\ pc = "read"

FatalTurn ==
    /\ pc = "ended"
    /\ user_log # <<>>
    /\ Last(user_log) = Message(LogToUserFn, "Error:", Last(user_log).arg)

\* C33: when a turn ends the session with the top-level failure message,
\* whatever the intent name and the arguments, the instance config, the
\* scaling config and the autoscaling flag are what they were when the turn
\* started.
C33_FatalTurnChangesNothing ==
    FatalTurn
    => /\ ec2_config = turn_start.ec2_config
       /\ as_config = turn_start.as_config
       /\ autoscaling_enabled = turn_start.autoscaling_enabled

\* a modify intent ends the session in a turn that started with an instance
\* type selected and autoscaling enabled by earlier turns
C33_Witness ==
    /\ FatalTurn
    /\ DispatchedIntent("user_intent_modify_ec2_config")
    /\ predicted_function_call.kwargs = [MaxCount |-> IntV(2)]
    /\ Last(user_log).arg = "TypeError"
    /\ autoscaling_enabled
    /\ ec2_config["InstanceType"] = InstanceName

====
